---- MODULE Spec2Model ----
(***************************************************************************)
(* The PeriodO command line client.  Two generations of the client are    *)
(* modelled side by side, selected by the variable `variant`:             *)
(*   "request" - src/index.js (HTTP through the `request` package)        *)
(*   "axios"   - src/unnamed/part_001, lines 196-563 (HTTP through axios) *)
(* One behaviour is a sequence of process invocations that share the      *)
(* token file.                                                             *)
(***************************************************************************)
EXTENDS Integers, Sequences, FiniteSets, TLC

VARIABLES
  variant,    \* which client is installed
  cmdline,    \* the command line as given: [positional, server]
  argv,       \* the parsed command line, as main and the handlers change it
  defaultServer, \* the default server URL, once known
  pc,         \* position of the invocation
  tokenFile,  \* contents of ~/.periodo-token, or Absent
  token,      \* value returned by getToken in this invocation
  prompts,    \* number of interactive prompts in this invocation
  events,     \* what the invocation did, in order
  response,   \* the HTTP response (or failure) the operation received
  settled,    \* settlement of the handler's promise
  out,        \* terminal output of the invocation
  exitCode,   \* the exit status of the process: empty while it runs
  patches,    \* list-patches: the patches the server returned
  names,      \* list-patches: result of each ORCID lookup, or Pending
  issued,     \* the token most recently stored by a prompt, or Absent
  runs,       \* number of invocations started
  extracted,  \* results of extractMessage on response.body (SpecExtract)
  stdin,      \* standard input: the lines each reader has taken from it
  httpRequest \* the HTTP request of the operation, once it is made

vars == <<variant, cmdline, argv, defaultServer, pc, tokenFile, token, prompts, events, response,
          settled, out, exitCode, patches, names, issued, runs, extracted, stdin,
          httpRequest>>

----------------------------------------------------------------------------
(* Bounds *)

MaxBodyLen == 3     \* response bodies have at most this many tokens
MaxPatches == 2     \* the server lists at most this many patches
MaxRuns == 2        \* invocations per behaviour

----------------------------------------------------------------------------
(* JavaScript values *)

Undefined == [t |-> "undefined"]
Null == [t |-> "null"]
Str(s) == [t |-> "string", chars |-> s]
Buffer(s) == [t |-> "buffer", bytes |-> s]
Obj(fields) == [t |-> "object", class |-> "Object", fields |-> fields]
Err(class, msg) ==
  [t |-> "object", class |-> class, fields |-> {<<"message", Str(msg)>>}]

IsObject(v) == v.t = "object"

\* `name in o` for an object o
HasField(o, name) == \E f \in o.fields : f[1] = name

\* o[name]; reading a missing property gives undefined
Get(o, name) ==
  IF IsObject(o) /\ HasField(o, name)
  THEN (CHOOSE f \in o.fields : f[1] = name)[2]
  ELSE Undefined

\* A computation that returns a value or throws one
Returned(v) == [threw |-> FALSE, value |-> v]
Thrown(e) == [threw |-> TRUE, value |-> e]

RECURSIVE SeqsUpTo(_, _)
SeqsUpTo(S, n) ==
  IF n = 0 THEN {<<>>}
  ELSE LET shorter == SeqsUpTo(S, n - 1)
       IN shorter \cup {Append(s, x) : s \in {q \in shorter : Len(q) = n - 1}, x \in S}

----------------------------------------------------------------------------
(* JSON text.  A body is a sequence of lexical tokens. *)

LBRACE == "{"
RBRACE == "}"
MSGPAIR == "\"message\":\"m\""
NULLTOK == "null"
JUNK == "oops"
PERMPAIR == "\"permissions\":[]"

WireAlphabet == {LBRACE, RBRACE, MSGPAIR}
JSONAlphabet == WireAlphabet \cup {NULLTOK, JUNK}

MessageObject == Obj({<<"message", Str(<<"m">>)>>})
EmptyObject == Obj({})
IdentityObject == Obj({<<"permissions", [t |-> "array", items |-> <<>>]>>})

\* JSON.parse: the grammar over the tokens above
JSONParse(s) ==
  IF s = <<NULLTOK>> THEN Returned(Null)
  ELSE IF s = <<LBRACE, RBRACE>> THEN Returned(EmptyObject)
  ELSE IF s = <<LBRACE, MSGPAIR, RBRACE>> THEN Returned(MessageObject)
  ELSE IF s = <<LBRACE, PERMPAIR, RBRACE>> THEN Returned(IdentityObject)
  ELSE Thrown(Err("SyntaxError", <<"Unexpected token">>))

\* JSON.stringify
JSONStringify(v) ==
  IF v.t = "null" THEN <<NULLTOK>>
  ELSE IF v.t = "string" THEN <<"\"">> \o v.chars \o <<"\"">>
  ELSE IF IsObject(v) /\ HasField(v, "message") THEN <<LBRACE, MSGPAIR, RBRACE>>
  ELSE IF IsObject(v) /\ HasField(v, "permissions") THEN <<LBRACE, PERMPAIR, RBRACE>>
  ELSE <<LBRACE, RBRACE>>

\* buffer.toString('utf8')
BufferToString(b) == IF b.t = "buffer" THEN b.bytes ELSE b.chars

----------------------------------------------------------------------------
(* extractMessage, in its three generations *)

\* src/index.js: the argument is the body text
extractMessageRequest(s) ==
  LET parsed == JSONParse(s)
  IN IF parsed.threw THEN Returned(Obj({<<"message", Str(s)>>}))
     ELSE Returned(parsed.value)

\* first generation: the argument is the body as a Buffer
extractMessageV1(buffer) ==
  LET s == BufferToString(buffer)
      parsed == JSONParse(s)
  IN IF parsed.threw THEN Returned(Obj({<<"message", Str(s)>>}))
     ELSE Returned(parsed.value)

\* axios hands the handler response.data: the parsed JSON when the body
\* parses, the body text itself otherwise (and for an empty body)
AxiosData(body) ==
  LET parsed == JSONParse(body)
  IN IF body = <<>> \/ parsed.threw THEN Str(body) ELSE parsed.value

\* axios generation: the argument is response.data; `in` throws a TypeError
\* unless its right operand is an object
extractMessageAxios(o) ==
  IF ~IsObject(o)
  THEN Thrown(Err("TypeError", <<"Cannot use 'in' operator to search for 'message'">>))
  ELSE IF HasField(o, "message") THEN Returned(o)
  ELSE Returned(Obj({<<"message", Str(JSONStringify(o))>>}))

----------------------------------------------------------------------------
(* URLs.  A URL is a sequence of characters; "h" stands for any character   *)
(* other than the slash.  Location headers and patch URLs are sequences of  *)
(* URL parts: scheme, host, path.                                           *)

\* DEFAULT_SERVER_URL of the axios client, 'https://data.perio.do/'
DEFAULT_SERVER_URL == <<"h", "/">>

\* what the HEAD request on the request client's default URL can resolve to
ResolvedDefaults == {<<"h">>, <<"h", "/">>}

\* s.slice(-1)
LastChar(s) == IF Len(s) = 0 THEN <<>> ELSE <<s[Len(s)]>>

\* the slash appended without looking at the last character
NormalizeServer_AlwaysAppends(s) == s \o <<"/">>

\* if (argv.server.slice(-1) !== '/') { argv.server += '/' }
NormalizeServer(s) == IF LastChar(s) # <<"/">> THEN s \o <<"/">> ELSE s

\* the Location header of a response: none, or the URL of the new resource
AbsLocation == <<"https://", "data.perio.do", "/d.json/patches/1">>
Locations == {Undefined, Str(AbsLocation)}

\* new URL(x): only an absolute URL parses; undefined is read as the
\* text "undefined"
URLParse(v) ==
  IF v.t = "string" /\ Len(v.chars) >= 2 /\ v.chars[1] = "https://"
  THEN Returned([host |-> v.chars[2], pathname |-> SubSeq(v.chars, 3, Len(v.chars))])
  ELSE Thrown(Err("TypeError", <<"Invalid URL">>))

\* server_url.replace('data', 'client')
ReplaceData(host) == IF host = "data.perio.do" THEN "client.perio.do" ELSE host

\* viewPatchURL of the axios client (percent-encoding is not modelled)
viewPatchURL(patch_url) ==
  LET url == URLParse(patch_url)
  IN IF url.threw THEN url
     ELSE Returned(Str(<<"https://", ReplaceData(url.value.host), "/",
                         "?page=review-patch", "&backendID=web-",
                         "https://", url.value.host, "/", "&patchURL=">>
                       \o url.value.pathname))

----------------------------------------------------------------------------
(* Messages *)

TOKEN_EXPIRED == "Token has expired. Delete ~/.periodo-token and try again."

\* sendData starts the message on a new line, the other handlers do not
ExpiredFromSendData == Obj({<<"message", Str(<<"\n", TOKEN_EXPIRED>>)>>})
ExpiredFromHandler == Obj({<<"message", Str(<<TOKEN_EXPIRED>>)>>})

ServerReturned(status) ==
  Obj({<<"message", Str(<<"Server returned ", ToString(status)>>)>>})

\* the error axios rejects with when validateStatus refuses the status
AxiosStatusError(status) ==
  Err("AxiosError", <<"Request failed with status code ", ToString(status)>>)

TransportFailure == Err("Error", <<"connect ECONNREFUSED">>)
FileFailure == Err("Error", <<"ENOENT: no such file or directory">>)

----------------------------------------------------------------------------
(* The command line *)

ListPatches == "list-patches"
ListPermissions == "list-permissions"
RefreshToken == "refresh-token"
SubmitPatch == "submit-patch"
MergePatch == "merge-patch"
RejectPatch == "reject-patch"
CreateBag == "create-bag"
UpdateGraph == "update-graph"
DeleteGraph == "delete-graph"
Bogus == "frobnicate"

WriteOps == {SubmitPatch, MergePatch, RejectPatch, CreateBag, UpdateGraph, DeleteGraph}
SendDataOps == {SubmitPatch, CreateBag, UpdateGraph}

\* the cases of the switch in main
Known(v) ==
  {ListPatches, RefreshToken} \cup WriteOps
    \cup (IF v = "axios" THEN {ListPermissions} ELSE {})

\* the positional arguments each handler insists on
Required(sub) ==
  IF sub = UpdateGraph THEN 2
  ELSE IF sub \in WriteOps THEN 1
  ELSE 0

Words == {ListPatches, ListPermissions, RefreshToken, Bogus} \cup WriteOps
STDIN == "-"   \* the file name that stands for standard input
Args == {<<>>, <<"a1">>, <<"a1", "a2">>}
\* '-' stands for standard input where a file is named, nowhere else
FileArgs == {<<STDIN, "a2">>}
CommandLines ==
  {<<>>} \cup {<<w>> \o a : w \in Words, a \in Args}
         \cup {<<w>> \o a : w \in SendDataOps, a \in FileArgs}

\* the value of -s/--server: not given, or a URL with or without the slash
ServerArgs == {Undefined, Str(<<"h">>), Str(<<"/">>), Str(<<"h", "/">>)}

----------------------------------------------------------------------------
(* The token file *)

Absent == [exists |-> FALSE, data |-> <<>>]
File(data) == [exists |-> TRUE, data |-> data]
OldToken == <<"t1">>
Tokens == {<<"t1">>, <<"t2">>}

----------------------------------------------------------------------------
(* Initial state and the start of an invocation *)

NoResponse == [kind |-> "none"]
PendingPromise == [state |-> "pending", value |-> Undefined]
Resolved(v) == [state |-> "resolved", value |-> v]
Rejected(e) == [state |-> "rejected", value |-> e]
NoOutput ==
  [usage |-> 0, ok |-> 0, failed |-> 0, errs |-> <<>>, log |-> <<>>,
   register |-> <<>>, unhandled |-> FALSE]
NotExited == {}
ExitedWith(code) == {code}
NoExtraction == [done |-> FALSE]

\* standard input as a stream of lines: the lines readline has taken off
\* it for the prompt, and the lines piped into the request as its body
NoStdin == [consumed |-> <<>>, piped |-> FALSE, body |-> <<>>]

\* the operation's request, with its Authorization header if it has one
NoRequest == [made |-> FALSE, authorization |-> Undefined]
Request(authorization) == [made |-> TRUE, authorization |-> authorization]

Fresh ==
  /\ pc = "main"
  /\ argv = cmdline
  /\ defaultServer = IF variant = "axios" THEN Str(DEFAULT_SERVER_URL) ELSE Undefined
  /\ token = Undefined
  /\ prompts = 0
  /\ events = <<>>
  /\ response = NoResponse
  /\ settled = PendingPromise
  /\ out = NoOutput
  /\ exitCode = NotExited
  /\ patches = <<>>
  /\ names = <<>>
  /\ stdin = NoStdin
  /\ httpRequest = NoRequest

Init ==
  /\ variant \in {"request", "axios"}
  /\ cmdline \in [positional : CommandLines, server : ServerArgs]
  /\ tokenFile \in {Absent, File(OldToken)}
  /\ issued = Absent
  /\ runs = 1
  /\ extracted = NoExtraction
  /\ Fresh

----------------------------------------------------------------------------
(* run: print the outcome of the handler's promise *)

Truthy(v) ==
  /\ v.t \notin {"undefined", "null"}
  /\ (v.t = "string" => v.chars # <<>>)

\* the two callbacks run hands to .then; reading .message of null or
\* undefined throws inside the rejection callback, which nothing catches
RunPrint(o, s) ==
  IF s.state = "resolved"
  THEN [o EXCEPT !.ok = @ + 1,
                 !.log = IF Truthy(s.value) THEN Append(@, s.value) ELSE @]
  ELSE IF s.value.t \in {"undefined", "null"}
  THEN [o EXCEPT !.failed = @ + 1, !.unhandled = TRUE]
  ELSE [o EXCEPT !.failed = @ + 1, !.errs = Append(@, Get(s.value, "message"))]

\* exit status once nothing is left to do: 0, unless a rejection went
\* unhandled, where the status depends on the Node.js release
ExitCodes(o) == IF o.unhandled THEN {ExitedWith(0), ExitedWith(1)} ELSE {ExitedWith(0)}

\* usage(): print the usage text and process.exit(1)
UsageExit ==
  /\ out' = [out EXCEPT !.usage = @ + 1]
  /\ exitCode' = ExitedWith(1)
  /\ pc' = "exited"
  /\ settled' = settled
  /\ httpRequest' = httpRequest

\* the handler's promise settles with s and run prints it
Finish(o, s) ==
  /\ settled' = s
  /\ out' = RunPrint(o, s)
  /\ exitCode' \in ExitCodes(out')
  /\ pc' = "exited"

----------------------------------------------------------------------------
(* The handlers' treatment of a response *)

Expected(sub) ==
  IF sub = SubmitPatch THEN 202
  ELSE IF sub \in {CreateBag, UpdateGraph} THEN 201
  ELSE 204

\* validateStatus: status => status < 500
validateStatus(status) == status < 500

\* what the HTTP client hands back before the handler sees anything: a
\* failure of the transport or of the body file, or (axios) a refused status
ClientFailure(v, resp) ==
  IF resp.kind = "error" THEN Returned(TransportFailure)
  ELSE IF resp.kind = "fileerror" THEN Returned(FileFailure)
  ELSE IF v = "axios" /\ ~validateStatus(resp.status)
  THEN Returned(AxiosStatusError(resp.status))
  ELSE Thrown(Undefined)

\* extractMessage as the handlers of each client call it
ExtractFor(v, body) ==
  IF v = "axios" THEN extractMessageAxios(AxiosData(body))
  ELSE extractMessageRequest(body)

\* sendData without its test for status 401
sendData_No401(v, resp, expectedStatus) ==
  LET failure == ClientFailure(v, resp)
  IN IF ~failure.threw THEN Rejected(failure.value)
     ELSE IF resp.status = expectedStatus THEN Resolved(resp.location)
     ELSE Rejected(ExtractFor(v, resp.body).value)

sendData(v, resp, expectedStatus) ==
  LET failure == ClientFailure(v, resp)
  IN IF ~failure.threw THEN Rejected(failure.value)
     ELSE IF resp.status = expectedStatus THEN Resolved(resp.location)
     ELSE IF resp.status = 401 THEN Rejected(ExpiredFromSendData)
     ELSE Rejected(ExtractFor(v, resp.body).value)

submitPatch(v, resp) ==
  LET sent == sendData(v, resp, Expected(SubmitPatch))
      view == viewPatchURL(sent.value)
  IN IF v = "request" \/ sent.state = "rejected" THEN sent
     ELSE IF view.threw THEN Rejected(view.value)
     ELSE Resolved(Str(<<"\n">> \o sent.value.chars \o <<"\n\n">>
                       \o view.value.chars \o <<"\n">>))

verbPatch(v, resp) ==
  LET failure == ClientFailure(v, resp)
  IN IF ~failure.threw THEN Rejected(failure.value)
     ELSE IF resp.status = 401 THEN Rejected(ExpiredFromHandler)
     ELSE IF resp.status # 204 THEN Rejected(ExtractFor(v, resp.body).value)
     ELSE Resolved(Undefined)

deleteGraph(v, resp) ==
  LET failure == ClientFailure(v, resp)
  IN IF ~failure.threw THEN Rejected(failure.value)
     ELSE IF resp.status = 401 THEN Rejected(ExpiredFromHandler)
     ELSE IF resp.status # 204 THEN Rejected(ServerReturned(resp.status))
     ELSE Resolved(Undefined)

\* listPermissions reads identity.permissions.length of response.data || {}
listPermissions(v, resp) ==
  LET failure == ClientFailure(v, resp)
      data == AxiosData(resp.body)
  IN IF ~failure.threw THEN Rejected(failure.value)
     ELSE IF resp.status = 401 THEN Rejected(ExpiredFromHandler)
     ELSE IF IsObject(data) /\ HasField(data, "permissions") THEN Resolved(Undefined)
     ELSE Rejected(Err("TypeError", <<"Cannot read properties of undefined">>))

HandlerSettles(v, sub, resp) ==
  IF sub = SubmitPatch THEN submitPatch(v, resp)
  ELSE IF sub \in {CreateBag, UpdateGraph}
  THEN sendData(v, resp, Expected(sub))
  ELSE IF sub \in {MergePatch, RejectPatch} THEN verbPatch(v, resp)
  ELSE IF sub = DeleteGraph THEN deleteGraph(v, resp)
  ELSE listPermissions(v, resp)

----------------------------------------------------------------------------
(* main: parse, resolve the default server, normalise, dispatch *)

\* the subcommand of this invocation (argv._.shift() removes it from argv)
Sub == Head(cmdline.positional)

Client(baseURL) == [t |-> "client", baseURL |-> baseURL]

\* the arguments main's switch gives run after the handler
runArguments(v, sub, a) ==
  IF v = "request" \/ sub = RefreshToken THEN <<a>>
  ELSE <<Client(a.server), a>>

\* run calls asyncFn(argv), or asyncFn(client, argv) in the axios client;
\* a parameter with no argument is undefined
handlerArguments(v, args) ==
  IF v = "request" THEN <<args[1]>>
  ELSE <<args[1], IF Len(args) >= 2 THEN args[2] ELSE Undefined>>

\* the parameter each handler names argv
handlerArgv(v, sub, params) ==
  IF v = "request" \/ sub = RefreshToken THEN params[1] ELSE params[2]

HandlerArgv ==
  handlerArgv(variant, Sub, handlerArguments(variant, runArguments(variant, Sub, argv)))

\* refreshToken without the deletion of the old file
Invoke_NoDelete(sub, rest) ==
  IF Len(rest) < Required(sub)
  THEN /\ UsageExit
       /\ events' = events \o <<"invoke", "usage">>
  ELSE /\ events' = events \o <<"invoke", "validated">>
            \o (IF sub = ListPatches THEN <<"request">> ELSE <<>>)
       /\ pc' = IF sub = ListPatches THEN "listing" ELSE "readToken"
       /\ httpRequest' = IF sub = ListPatches THEN Request(Undefined) ELSE httpRequest
       /\ UNCHANGED <<out, exitCode, settled>>

\* handlers that send their request without awaiting getToken
Invoke_NoToken(sub, rest) ==
  IF Len(rest) < Required(sub)
  THEN /\ UsageExit
       /\ events' = events \o <<"invoke", "usage">>
  ELSE /\ events' = events \o <<"invoke", "validated">>
            \o (IF sub \in {ListPatches} \cup WriteOps THEN <<"request">> ELSE <<>>)
       /\ pc' = IF sub = ListPatches THEN "listing"
                ELSE IF sub \in WriteOps THEN "request"
                ELSE IF sub = RefreshToken /\ tokenFile.exists THEN "deleting"
                ELSE "readToken"
       /\ httpRequest' = IF sub \in {ListPatches} \cup WriteOps THEN Request(Undefined) ELSE httpRequest
       /\ UNCHANGED <<out, exitCode, settled>>

\* the handler's code up to its first await
Invoke(sub, rest) ==
  IF Len(rest) < Required(sub)
  THEN /\ UsageExit
       /\ events' = events \o <<"invoke", "usage">>
  ELSE /\ events' = events \o <<"invoke", "validated">>
            \o (IF sub = ListPatches THEN <<"request">> ELSE <<>>)
       /\ pc' = IF sub = ListPatches THEN "listing"
                ELSE IF sub = RefreshToken /\ tokenFile.exists THEN "deleting"
                ELSE "readToken"
       /\ httpRequest' = IF sub = ListPatches THEN Request(Undefined) ELSE httpRequest
       /\ UNCHANGED <<out, exitCode, settled>>

\* the body of main once the default server is known
Startup(default_server) ==
  LET server == IF argv.server = Undefined THEN default_server ELSE argv.server
      sub == Head(argv.positional)
      rest == Tail(argv.positional)
  IN /\ defaultServer' = default_server
     /\ argv' = [positional |-> rest, server |-> Str(NormalizeServer(server.chars))]
     /\ IF sub \in Known(variant)
        THEN Invoke(sub, rest)
        ELSE UsageExit /\ events' = Append(events, "usage")

Main ==
  /\ pc = "main"
  /\ IF Len(argv.positional) = 0
     THEN /\ UsageExit
          /\ events' = Append(events, "usage")
          /\ UNCHANGED <<argv, defaultServer>>
     ELSE IF variant = "request"
     THEN /\ pc' = "resolving"
          /\ events' = Append(events, "head")
          /\ UNCHANGED <<argv, defaultServer, out, exitCode, settled, httpRequest>>
     ELSE Startup(Str(DEFAULT_SERVER_URL))
  /\ UNCHANGED <<variant, cmdline, tokenFile, token, prompts, response, patches,
                 names, issued, runs, extracted, stdin>>

\* resolveURL(DEFAULT_SERVER_URL) answers: the .then callback runs
ResolveOK ==
  /\ pc = "resolving"
  /\ \E href \in ResolvedDefaults : Startup(Str(href))
  /\ UNCHANGED <<variant, cmdline, tokenFile, token, prompts, response, patches,
                 names, issued, runs, extracted, stdin>>

\* resolveURL(DEFAULT_SERVER_URL) rejects: the promise has no rejection
\* handler, so nothing of main's callback runs
ResolveFails ==
  /\ pc = "resolving"
  /\ out' = [out EXCEPT !.unhandled = TRUE]
  /\ exitCode' \in ExitCodes(out')
  /\ pc' = "exited"
  /\ events' = Append(events, "head-failed")
  /\ UNCHANGED <<variant, cmdline, argv, defaultServer, tokenFile, token, prompts,
                 response, settled, patches, names, issued, runs, extracted, stdin, httpRequest>>

----------------------------------------------------------------------------
(* Token management *)

\* the Authorization header the handlers build from the token: the text
\* 'Bearer ' and the token as a string
Bearer(tok) == Str(<<"Bearer ">> \o BufferToString(tok))

\* what follows `await getToken(...)` in the handler
AfterToken(evs, o) ==
  IF Sub = RefreshToken
  THEN Finish(o, Resolved(Undefined)) /\ events' = evs /\ httpRequest' = httpRequest
  ELSE /\ pc' = "request"
       /\ events' = Append(evs, "request")
       /\ httpRequest' = Request(Bearer(token'))
       /\ out' = o
       /\ UNCHANGED <<settled, exitCode>>

\* the lines that arrive on standard input in the same chunk as the line
\* that answers the prompt: none on a terminal, the following lines of
\* the input on a pipe
BodyLine == <<"b">>
InputBody == <<BodyLine>>   \* the lines of the body on standard input
ChunkRests == {<<>>, InputBody}

\* the first positional argument of submit-patch, create-bag and
\* update-graph: sendData's filename
Filename == Head(HandlerArgv.positional)

\* the lines readline drops are lost to a later reader of standard input;
\* an invocation with no later reader never sees them, and none is recorded
Dropped ==
  IF Sub \in SendDataOps /\ Filename = STDIN THEN ChunkRests ELSE {<<>>}

\* askForInput: readline reads standard input until it has a line, hands
\* the first line to the question's callback and is closed; the lines of
\* the chunk after the first are emitted to no listener
askForInput(in, line, more) == [in EXCEPT !.consumed = @ \o <<line>> \o more]

\* refreshToken: await deleteFile(TOKEN_FILE), then getToken is called
DeleteDone ==
  /\ pc = "deleting"
  /\ tokenFile' = Absent
  /\ issued' = Absent
  /\ events' = Append(events, "delete")
  /\ pc' = "readToken"
  /\ UNCHANGED <<variant, cmdline, argv, defaultServer, token, prompts, response,
                 settled, out, exitCode, patches, names, runs, extracted, stdin, httpRequest>>

\* getToken(argv.server) up to the answer of readFile: the contents, or
\* the prompt on stderr
ReadToken ==
  /\ pc = "readToken"
  /\ IF HandlerArgv = Undefined
     THEN /\ Finish(out, Rejected(Err("TypeError", <<"Cannot read properties of undefined">>)))
          /\ UNCHANGED <<token, events, httpRequest>>
     ELSE IF tokenFile.exists
     THEN /\ token' = Buffer(tokenFile.data)
          /\ AfterToken(Append(events, "read"), out)
     ELSE /\ pc' = "prompt"
          /\ out' = [out EXCEPT !.register = HandlerArgv.server.chars \o <<"register?cli">>]
          /\ events' = Append(events, "read-failed")
          /\ UNCHANGED <<token, settled, exitCode, httpRequest>>
  /\ UNCHANGED <<variant, cmdline, argv, defaultServer, tokenFile, prompts, response,
                 patches, names, issued, runs, extracted, stdin>>

\* getToken returning the entered token without writing it to the file
Prompt_NoWrite ==
  /\ pc = "prompt"
  /\ \E t \in Tokens, more \in Dropped :
       /\ token' = Str(t)
       /\ stdin' = askForInput(stdin, t, more)
  /\ prompts' = prompts + 1
  /\ AfterToken(events \o <<"prompt", "write">>, out)
  /\ UNCHANGED <<variant, cmdline, argv, defaultServer, tokenFile, issued, response,
                 patches, names, runs, extracted>>

\* the user answers the prompt: the token is written and returned
Prompt ==
  /\ pc = "prompt"
  /\ \E t \in Tokens, more \in Dropped :
       /\ token' = Str(t)
       /\ tokenFile' = File(t)
       /\ issued' = File(t)
       /\ stdin' = askForInput(stdin, t, more)
  /\ prompts' = prompts + 1
  /\ AfterToken(events \o <<"prompt", "write">>, out)
  /\ UNCHANGED <<variant, cmdline, argv, defaultServer, response, patches, names,
                 runs, extracted>>

----------------------------------------------------------------------------
(* The request of a write operation or of list-permissions *)

Statuses == {201, 202, 204, 400, 401, 500}

IdentityBodies == {<<>>, <<LBRACE, RBRACE>>, <<LBRACE, PERMPAIR, RBRACE>>}

ResponseBodies(sub) ==
  IF sub = ListPermissions THEN IdentityBodies
  ELSE SeqsUpTo(WireAlphabet, MaxBodyLen)

\* what listPermissions prints before it returns
IdentityLines(sub, s) ==
  IF sub = ListPermissions /\ s.state = "resolved"
  THEN <<Str(<<"identity">>), Str(<<"none">>)>>
  ELSE <<>>

\* what is left on standard input when sendData pipes it into the
\* request: the body, unless readline took it with the token's line
StdinRest(in) == IF Len(in.consumed) > 1 THEN <<>> ELSE InputBody

\* sendData's dataStream: standard input for '-', which the pipe reads
\* from where the earlier readers left it, to its end
dataStream(in, sub, filename) ==
  IF sub \in SendDataOps /\ filename = STDIN
  THEN [in EXCEPT !.piped = TRUE, !.body = StdinRest(in)]
  ELSE in

\* a client that removes the token file when the server answers 401
Settle_Removes401(resp) ==
  LET s == HandlerSettles(variant, Sub, resp)
  IN /\ response' = resp
     /\ Finish([out EXCEPT !.log = @ \o IdentityLines(Sub, s)], s)
     /\ events' = Append(events, "settled")
     /\ IF resp.kind = "response" /\ Sub \in SendDataOps
        THEN stdin' = dataStream(stdin, Sub, Filename)
        ELSE stdin' = stdin
     /\ tokenFile' = IF resp.kind = "response" /\ resp.status = 401 THEN Absent ELSE tokenFile
     /\ UNCHANGED <<variant, cmdline, argv, defaultServer, token, prompts,
                    patches, names, issued, runs, extracted, httpRequest>>

Settle(resp) ==
  LET s == HandlerSettles(variant, Sub, resp)
  IN /\ response' = resp
     /\ Finish([out EXCEPT !.log = @ \o IdentityLines(Sub, s)], s)
     /\ events' = Append(events, "settled")
     /\ IF resp.kind = "response" /\ Sub \in SendDataOps
        THEN stdin' = dataStream(stdin, Sub, Filename)
        ELSE stdin' = stdin
     /\ UNCHANGED <<variant, cmdline, argv, defaultServer, tokenFile, token, prompts,
                    patches, names, issued, runs, extracted, httpRequest>>

Respond ==
  /\ pc = "request"
  /\ \E status \in Statuses, location \in Locations, body \in ResponseBodies(Sub) :
       Settle([kind |-> "response", status |-> status, location |-> location,
               body |-> body])

TransportError ==
  /\ pc = "request"
  /\ Settle([kind |-> "error"])

\* the body file named on the command line cannot be read
BodyFileError ==
  /\ pc = "request"
  /\ Sub \in SendDataOps
  /\ Filename # STDIN
  /\ Settle([kind |-> "fileerror"])

----------------------------------------------------------------------------
(* list-patches *)

Pending == [t |-> "pending"]

\* a finished lookup: what the GET brought, the name personalName made of
\* it, and how many lookups had finished before it
Looked(reply, name, before) ==
  [t |-> "done", kind |-> reply.kind, name |-> name, after |-> before]

Patch(i) ==
  [url |-> Str(<<"https://", "data.perio.do", "/d.json/patches/", ToString(i)>>),
   created_by |-> <<"https://orcid.org/", ToString(i)>>,
   created_at |-> <<"2020-01-0", ToString(i)>>]

PatchIds == {1, 2}
PatchLists == SeqsUpTo({Patch(i) : i \in PatchIds}, MaxPatches)

\* what the GET of a created_by URL can bring
Value(s) == Obj({<<"value", s>>})
Profile(name) == Obj({<<"person", Obj({<<"name", name>>})>>})
OrcidReplies ==
  { [kind |-> "error"],
    [kind |-> "body", body |-> Str(<<"not json">>)],
    [kind |-> "body", body |-> EmptyObject],
    [kind |-> "body", body |-> Profile(EmptyObject)],
    [kind |-> "body", body |-> Profile(Obj({<<"family-name", Value(Str(<<"doe">>))>>,
                                            <<"given-names", Value(Str(<<"jane">>))>>}))],
    [kind |-> "body", body |-> Profile(Obj({<<"family-name", Value(Null)>>}))] }

\* R.toUpper: String.prototype.toUpperCase, which only a string has
ToUpperChar(c) == IF c = "doe" THEN "DOE" ELSE c
toUpper(v) ==
  IF v.t = "string" THEN Returned(Str([i \in 1..Len(v.chars) |-> ToUpperChar(v.chars[i])]))
  ELSE Thrown(Err("TypeError", <<"toUpperCase is not a function">>))

\* R.pathOr('', [field, 'value'])
ValueOr(details, field) ==
  LET v == Get(Get(details, field), "value")
  IN IF v.t \in {"undefined", "null"} THEN Str(<<>>) ELSE v

\* personalName: the display name, 'anonymous', or the message of whatever
\* was thrown on the way
personalName(reply) ==
  IF reply.kind = "error" THEN Get(TransportFailure, "message").chars
  ELSE LET details == Get(Get(reply.body, "person"), "name")
           family == toUpper(ValueOr(details, "family-name"))
           given == ValueOr(details, "given-names")
       IN IF details = Undefined THEN <<"anonymous">>
          ELSE IF family.threw THEN Get(family.value, "message").chars
          ELSE IF family.value.chars \o given.chars = <<>> THEN <<"anonymous">>
          ELSE family.value.chars \o <<" ">> \o given.chars

\* the view line of showPatch
PatchView(v, server_url, patch) ==
  IF v = "request" THEN Returned(Str(server_url.chars \o <<"#/patches/">> \o patch.url.chars))
  ELSE viewPatchURL(patch.url)

\* showPatch, once the name is known
showPatch(v, server_url, patch, name) ==
  LET view == PatchView(v, server_url, patch)
  IN IF view.threw THEN view
     ELSE Returned(Str(<<"url: ">> \o patch.url.chars \o <<"who: ">> \o patch.created_by
                       \o <<" (">> \o name \o <<")", "when: ">> \o patch.created_at
                       \o <<"view: ">> \o view.value.chars))

\* the entries in the reverse of the server's order
showPatches_Reversed(v, server_url, ps, ns) ==
  [i \in 1..Len(ps) |->
     showPatch(v, server_url, ps[Len(ps) + 1 - i], ns[Len(ps) + 1 - i].name).value]

\* showPatches: Promise.all keeps the order of its argument
showPatches(v, server_url, ps, ns) ==
  [i \in 1..Len(ps) |-> showPatch(v, server_url, ps[i], ns[i].name).value]

\* the GET of the collection answers
ListResponse ==
  /\ pc = "listing"
  /\ \E ps \in PatchLists :
       /\ patches' = ps
       /\ names' = [i \in 1..Len(ps) |-> Pending]
       /\ response' = [kind |-> "list", count |-> Len(ps)]
       /\ IF Len(ps) = 0
          THEN Finish(out, Resolved(Undefined)) /\ events' = Append(events, "settled")
          ELSE /\ pc' = "lookups"
               /\ events' = events
               /\ UNCHANGED <<out, settled, exitCode>>
  /\ UNCHANGED <<variant, cmdline, argv, defaultServer, tokenFile, token, prompts,
                 issued, runs, extracted, stdin, httpRequest>>

ListTransportError ==
  /\ pc = "listing"
  /\ response' = [kind |-> "error"]
  /\ Finish(out, Rejected(TransportFailure))
  /\ events' = Append(events, "settled")
  /\ UNCHANGED <<variant, cmdline, argv, defaultServer, tokenFile, token, prompts,
                 patches, names, issued, runs, extracted, stdin, httpRequest>>

\* one ORCID lookup completes, in any order; the last one lets Promise.all
\* resolve, and listPatches prints the entries
Lookup(i) ==
  /\ pc = "lookups"
  /\ names[i] = Pending
  /\ \E reply \in OrcidReplies :
       LET name == personalName(reply)
           shown == showPatch(variant, HandlerArgv.server, patches[i], name)
       IN /\ names' = [names EXCEPT ![i] = Looked(reply, name, Cardinality({j \in 1..Len(names) : names[j] # Pending}))]
          /\ IF shown.threw
             THEN Finish(out, Rejected(shown.value)) /\ events' = Append(events, "settled")
             ELSE IF \A j \in 1..Len(names) : names'[j] # Pending
             THEN /\ Finish([out EXCEPT !.log = @ \o
                              showPatches(variant, HandlerArgv.server, patches, names')],
                            Resolved(Undefined))
                  /\ events' = Append(events, "settled")
             ELSE /\ events' = events
                  /\ UNCHANGED <<pc, out, settled, exitCode>>
  /\ UNCHANGED <<variant, cmdline, argv, defaultServer, tokenFile, token, prompts,
                 response, patches, issued, runs, extracted, stdin, httpRequest>>

----------------------------------------------------------------------------
(* The next invocation: a fresh process, the same token file *)

\* the process is gone: nothing of it remains but the token file
Again ==
  /\ pc = "exited"
  /\ runs < MaxRuns
  /\ runs' = runs + 1
  /\ cmdline' = [positional |-> <<>>, server |-> Undefined]
  /\ argv' = cmdline'
  /\ defaultServer' = IF variant = "axios" THEN Str(DEFAULT_SERVER_URL) ELSE Undefined
  /\ pc' = "shell"
  /\ token' = Undefined
  /\ prompts' = 0
  /\ events' = <<>>
  /\ response' = NoResponse
  /\ settled' = PendingPromise
  /\ out' = NoOutput
  /\ exitCode' = NotExited
  /\ patches' = <<>>
  /\ names' = <<>>
  /\ stdin' = NoStdin
  /\ httpRequest' = NoRequest
  /\ UNCHANGED <<variant, tokenFile, issued, extracted>>

\* the user types the next command line
Launch ==
  /\ pc = "shell"
  /\ cmdline' \in [positional : CommandLines, server : ServerArgs]
  /\ argv' = cmdline'
  /\ pc' = "main"
  /\ UNCHANGED <<variant, defaultServer, tokenFile, token, prompts, events, response,
                 settled, out, exitCode, patches, names, issued, runs, extracted, stdin, httpRequest>>

Next ==
  \/ Main
  \/ ResolveOK
  \/ ResolveFails
  \/ DeleteDone
  \/ ReadToken
  \/ Prompt
  \/ Respond
  \/ TransportError
  \/ BodyFileError
  \/ ListResponse
  \/ ListTransportError
  \/ \E i \in 1..MaxPatches + 1 : i <= Len(names) /\ Lookup(i)
  \/ Again
  \/ Launch

Spec == Init /\ [][Next]_vars

----------------------------------------------------------------------------
(* extractMessage on its own: every bounded body through each generation *)

InitExtract ==
  /\ variant = "request"
  /\ cmdline = [positional |-> <<>>, server |-> Undefined]
  /\ tokenFile = Absent
  /\ issued = Absent
  /\ runs = 1
  /\ extracted = NoExtraction
  /\ pc = "shell"
  /\ argv = cmdline
  /\ defaultServer = Undefined
  /\ token = Undefined
  /\ prompts = 0
  /\ events = <<>>
  /\ settled = PendingPromise
  /\ out = NoOutput
  /\ exitCode = NotExited
  /\ patches = <<>>
  /\ names = <<>>
  /\ stdin = NoStdin
  /\ httpRequest = NoRequest
  /\ \E body \in SeqsUpTo(JSONAlphabet, MaxBodyLen) :
       response = [kind |-> "body", body |-> body]

Extract ==
  /\ response.kind = "body"
  /\ ~extracted.done
  /\ extracted' = [done |-> TRUE,
                   request |-> extractMessageRequest(response.body),
                   v1 |-> extractMessageV1(Buffer(response.body)),
                   axios |-> extractMessageAxios(AxiosData(response.body))]
  /\ UNCHANGED <<variant, cmdline, argv, defaultServer, pc, tokenFile, token, prompts,
                 events, response, settled, out, exitCode, patches, names, issued,
                 runs, stdin, httpRequest>>

SpecExtract == InitExtract /\ [][Extract]_vars

----------------------------------------------------------------------------
(* Vocabulary of the properties *)

HasCommand == Len(cmdline.positional) > 0
IsCommand(S) == HasCommand /\ Sub \in S
Exited == pc = "exited"
GotResponse == response.kind = "response"

\* the command line is one main or a handler answers with usage()
UsageError ==
  \/ ~HasCommand
  \/ Sub \notin Known(variant)
  \/ Len(cmdline.positional) - 1 < Required(Sub)

\* s occurs in t as a run of consecutive elements
Occurs(s, t) == \E k \in 0..(Len(t) - Len(s)) : SubSeq(t, k + 1, k + Len(s)) = s

\* some line printed on stdout carries the text s
Printed(s) == \E i \in 1..Len(out.log) : Occurs(s, BufferToString(out.log[i]))

Count(e) == Cardinality({i \in 1..Len(events) : events[i] = e})

----------------------------------------------------------------------------
(* C1: for every write operation and every response whose status is the    *)
(* operation's expected code, the handler resolves (run prints OK, never   *)
(* 'failed') and the Location header is surfaced when the server sent one, *)
(* whether or not the header is present.                                   *)

C1_ExpectedStatusResolves ==
  (Exited /\ GotResponse /\ IsCommand(WriteOps) /\ response.status = Expected(Sub))
    => /\ settled.state = "resolved"
       /\ out.ok = 1
       /\ out.failed = 0
       /\ response.location # Undefined => Printed(response.location.chars)

----------------------------------------------------------------------------
(* C2: for every write operation and every response body, status 401 makes *)
(* the handler reject with the fixed token-expired message; the body never *)
(* influences the message.                                                 *)

C2_ExpiredMessage ==
  (Exited /\ GotResponse /\ IsCommand(WriteOps) /\ response.status = 401)
    => /\ settled.state = "rejected"
       /\ out.ok = 0
       /\ out.failed = 1
       /\ out.errs = <<Str((IF Sub \in SendDataOps THEN <<"\n">> ELSE <<>>)
                           \o <<TOKEN_EXPIRED>>)>>

\* a 401 whose body, under any other error status, would have been the message
C2_Witness ==
  /\ Exited /\ GotResponse /\ IsCommand({SubmitPatch}) /\ variant = "axios"
  /\ response.status = 401
  /\ response.body = <<LBRACE, MSGPAIR, RBRACE>>
  /\ out.failed = 1

----------------------------------------------------------------------------
(* C3: for every write operation and every response status that is neither *)
(* the expected code nor 401, the handler rejects with the message taken   *)
(* from the body: the body's own message when the body is JSON, otherwise  *)
(* the raw body text wrapped in a message field.                           *)

C3_MessageFromBody ==
  (Exited /\ GotResponse /\ IsCommand(WriteOps)
     /\ response.status \notin {Expected(Sub), 401})
    => LET parsed == JSONParse(response.body)
       IN /\ settled.state = "rejected"
          /\ out.failed = 1
          /\ IF parsed.threw
             THEN settled.value = Obj({<<"message", Str(response.body)>>})
             ELSE out.errs = <<Get(parsed.value, "message")>>

----------------------------------------------------------------------------
(* C4: extractMessage, for every body: a valid JSON body with a message    *)
(* field comes back as that object, unchanged; a body that is not valid    *)
(* JSON comes back as {message: <the raw text>}, and nothing is thrown.    *)

ExtractsAsClaimed(body, result) ==
  LET parsed == JSONParse(body)
  IN /\ ~result.threw
     /\ parsed.threw => result.value = Obj({<<"message", Str(body)>>})
     /\ (~parsed.threw /\ IsObject(parsed.value) /\ HasField(parsed.value, "message"))
          => result.value = parsed.value

C4_ExtractMessage ==
  extracted.done
    => /\ ExtractsAsClaimed(response.body, extracted.request)
       /\ ExtractsAsClaimed(response.body, extracted.v1)
       /\ ExtractsAsClaimed(response.body, extracted.axios)

----------------------------------------------------------------------------
(* C5: a known subcommand with enough positional arguments invokes exactly *)
(* one handler; an unknown subcommand, no subcommand or a missing          *)
(* positional argument always ends with the usage text and exit status 1,  *)
(* whatever the outcome of a network call made during startup.             *)

C5_Dispatch ==
  Exited
    => IF UsageError
       THEN out.usage = 1 /\ exitCode = ExitedWith(1)
       ELSE Count("invoke") = 1

----------------------------------------------------------------------------
(* C6: getToken returns the contents of an existing token file without     *)
(* prompting and without writing the file; with the file absent it prompts *)
(* exactly once, writes the entered token to the file and returns it, so   *)
(* that a later getToken (the file not deleted in between) returns that    *)
(* same token without prompting.                                           *)

C6_TokenStates ==
  /\ token.t = "buffer" => prompts = 0 /\ tokenFile = File(token.bytes)
  /\ token.t = "string" =>
       prompts = 1 /\ tokenFile = File(token.chars) /\ issued = tokenFile
  /\ pc = "prompt" => ~tokenFile.exists /\ prompts = 0
  /\ (issued.exists /\ token # Undefined) => BufferToString(token) = issued.data

C6_ReadLeavesFile ==
  (pc = "readToken" /\ tokenFile.exists)
    => /\ tokenFile' = tokenFile
       /\ prompts' = prompts
       /\ pc' # "prompt"
       /\ HandlerArgv # Undefined => token' = Buffer(tokenFile.data)

C6_GetToken == []C6_TokenStates /\ [][C6_ReadLeavesFile]_vars

\* a second invocation reads, without a prompt, the token the first one asked for
C6_Witness ==
  /\ runs = 2
  /\ issued = File(<<"t2">>)
  /\ token = Buffer(<<"t2">>)
  /\ prompts = 0

----------------------------------------------------------------------------
(* C7: refresh-token, whether the token file is present or absent at the   *)
(* start: the old file is deleted first if present, the user is then       *)
(* prompted exactly once, and when the command completes the token file    *)
(* exists and holds the newly entered token.                               *)

C7_RefreshToken ==
  IsCommand({RefreshToken})
    => /\ pc \in {"readToken", "prompt"} => ~tokenFile.exists
       /\ \A i, j \in 1..Len(events) :
            (events[i] = "delete" /\ events[j] = "prompt") => i < j
       /\ (Exited /\ Count("invoke") = 1)
            => /\ settled.state = "resolved"
               /\ prompts = 1
               /\ Count("prompt") = 1
               /\ token.t = "string"
               /\ tokenFile = File(token.chars)

\* the axios client replaces an existing token t1 by the entered t2
C7_Witness ==
  /\ IsCommand({RefreshToken}) /\ Exited /\ variant = "axios"
  /\ Count("delete") = 1
  /\ tokenFile = File(<<"t2">>)
  /\ out.ok = 1

----------------------------------------------------------------------------
(* C8: server URL normalization at startup: a value lacking a trailing     *)
(* slash gains exactly one, a value ending in a slash is unchanged;        *)
(* normalization is idempotent and the URL every handler uses ends in the  *)
(* slash it had or gained.                                                 *)

EndsInSlash(s) == Len(s) > 0 /\ s[Len(s)] = "/"

StartedUp ==
  HasCommand /\ pc \notin {"main", "resolving", "shell"} /\ Count("head-failed") = 0

C8_ServerNormalized ==
  StartedUp
    => LET given == (IF cmdline.server = Undefined THEN defaultServer
                     ELSE cmdline.server).chars
           used == argv.server.chars
       IN /\ EndsInSlash(given) => used = given
          /\ ~EndsInSlash(given) => used = Append(given, "/")
          /\ NormalizeServer(used) = used
          /\ Count("invoke") = 1 => HandlerArgv.server = argv.server
          /\ out.register # <<>> => out.register = used \o <<"register?cli">>

\* a handler at work on a server URL that gained its slash
C8_Witness ==
  /\ StartedUp /\ pc = "request"
  /\ cmdline.server = Str(<<"h">>)
  /\ argv.server = Str(<<"h", "/">>)

----------------------------------------------------------------------------
(* C9: list-patches, for every list of patches and every completion order  *)
(* and outcome of the concurrent ORCID lookups: one entry is printed per   *)
(* patch, in the server's order; a failed lookup only puts the error text  *)
(* in place of that patch's name, and never aborts the listing or changes  *)
(* another patch's entry.                                                  *)

----------------------------------------------------------------------------
(* C10: every failure that is not a usage error is caught at the top       *)
(* level: 'failed' and the error's message are printed exactly once, 'OK'  *)
(* is not, and the exit status is 0; on success 'OK' is printed exactly    *)
(* once and 'failed' is not.                                               *)

Failure ==
  \/ response.kind \in {"error", "fileerror"}
  \/ GotResponse /\ response.status # Expected(Sub)
  \/ Count("head-failed") > 0

C10_TopLevelCatch ==
  (Exited /\ ~UsageError)
    => IF Failure
       THEN /\ out.failed = 1 /\ Len(out.errs) = 1 /\ out.ok = 0
            /\ exitCode = ExitedWith(0)
       ELSE out.ok = 1 /\ out.failed = 0

----------------------------------------------------------------------------
(* C11: for submit-patch, create-bag and update-graph given the file name  *)
(* '-', the body sent to the server is exactly the full content of         *)
(* standard input, whether the token was read from the token file or       *)
(* entered at the prompt during the same invocation: the prompt takes      *)
(* nothing of the body's input.                                            *)

\* every line that was on standard input, in order
StdinContent == stdin.consumed \o stdin.body

BodyFromStdin ==
  /\ IsCommand(SendDataOps)
  /\ Len(cmdline.positional) >= 2
  /\ cmdline.positional[2] = STDIN
  /\ GotResponse
  /\ Count("invoke") = 1

C11_StdinIsBody ==
  BodyFromStdin => /\ stdin.piped
                   /\ stdin.body = StdinContent

----------------------------------------------------------------------------
(* C12: in every authenticated operation the steps happen in the order     *)
(* validation of the positional arguments, acquisition of the token, HTTP  *)
(* request.  An invocation that fails the validation never prompts, never  *)
(* creates or changes the token file and never sends the operation's       *)
(* request; no authenticated request is sent before a token has been read  *)
(* or entered.                                                             *)

AuthenticatedOps == WriteOps \cup {ListPermissions}

\* a write operation without the positional arguments its handler needs
InvalidArguments ==
  IsCommand(WriteOps) /\ Len(cmdline.positional) - 1 < Required(Sub)

\* events[i] is the sending of the request: the arguments were validated
\* before the token was read or entered, and that before the request
InOrder(i) ==
  \E j \in 1..(i - 1) :
    /\ events[j] \in {"read", "prompt"}
    /\ \E k \in 1..(j - 1) : events[k] = "validated"

C12_OrderStates ==
  /\ InvalidArguments
       => /\ prompts = 0
          /\ token = Undefined
          /\ response = NoResponse
          /\ pc \notin {"readToken", "prompt", "request"}
          /\ \A i \in 1..Len(events) :
               events[i] \notin {"read", "read-failed", "prompt", "write", "request"}
  /\ IsCommand(AuthenticatedOps)
       => /\ \A i \in 1..Len(events) : events[i] = "request" => InOrder(i)
          /\ (pc = "request" \/ response # NoResponse)
               => /\ token # Undefined
                  /\ Count("request") = 1
                  /\ tokenFile.exists

C12_InvalidLeavesFile == InvalidArguments => tokenFile' = tokenFile

C12_Order == []C12_OrderStates /\ [][C12_InvalidLeavesFile]_vars

\* update-graph with one argument of two and no token file: usage, and
\* the file is still absent
C12_Witness ==
  /\ IsCommand({UpdateGraph}) /\ Exited
  /\ Len(cmdline.positional) = 2
  /\ Count("invoke") = 1
  /\ out.usage = 1
  /\ exitCode = ExitedWith(1)
  /\ ~tokenFile.exists

----------------------------------------------------------------------------
(* C13: the token file is created only by getToken when it is absent and   *)
(* deleted only by refresh-token.  list-patches never reads, prompts for,  *)
(* creates or changes the token and sends no Authorization header; any     *)
(* response to an authenticated request, 401 included, leaves the token    *)
(* file exactly as it was before the request.                              *)

C13_ListPatchesStates ==
  IsCommand({ListPatches})
    => /\ token = Undefined
       /\ prompts = 0
       /\ pc \notin {"deleting", "readToken", "prompt", "request"}
       /\ \A i \in 1..Len(events) :
            events[i] \notin {"delete", "read", "read-failed", "prompt", "write"}
       /\ httpRequest.authorization = Undefined
       /\ response # NoResponse => httpRequest.made

\* an authenticated request carries the token of the file, and the file is
\* still there, unchanged, when the answer has come
C13_AuthenticatedStates ==
  (IsCommand(AuthenticatedOps) /\ httpRequest.made)
    => /\ httpRequest.authorization = Bearer(token)
       /\ tokenFile = File(BufferToString(token))

C13_FileSteps ==
  /\ IsCommand({ListPatches}) => tokenFile' = tokenFile
  /\ pc = "request" => tokenFile' = tokenFile
  /\ (tokenFile'.exists /\ tokenFile' # tokenFile)
       => pc = "prompt" /\ ~tokenFile.exists /\ tokenFile' = File(BufferToString(token'))
  /\ (tokenFile.exists /\ ~tokenFile'.exists)
       => IsCommand({RefreshToken}) /\ pc = "deleting"

C13_TokenFileFrame ==
  /\ []C13_ListPatchesStates
  /\ []C13_AuthenticatedStates
  /\ [][C13_FileSteps]_vars

\* the server has answered 401 to a write operation that sent the stored
\* token, and the file still holds that token
C13_Witness ==
  /\ IsCommand(WriteOps) /\ Exited /\ GotResponse
  /\ response.status = 401
  /\ token = Buffer(OldToken)
  /\ httpRequest = Request(Bearer(Buffer(OldToken)))
  /\ tokenFile = File(OldToken)
====
